---- MODULE Spec2Model ----
(***************************************************************************)
(* podcast_align: alignment and timing-reconstruction pipeline.            *)
(*                                                                         *)
(*   align_transcript_to_whisper  -> interpolate_missing_times             *)
(*   -> insert_word_table_times   -> reinsert_cues_with_interpolation      *)
(*   -> chunk_reintegrated_utterances -> normalise_subtitle_timings        *)
(*                                                                         *)
(* Python lists are sequences; Python indices are 0-based and kept so in   *)
(* the cursors (element k of a list s is s[k + 1]).  None is the empty     *)
(* sequence <<>> and a present value x is <<x>>.  Times are integers in    *)
(* ticks, Sec ticks to the second, so that every constant of the code      *)
(* (0.2, 0.25, 0.33, 1.0, 1.5, 2, 6.0) and every quotient the interpolator *)
(* forms is a whole number of ticks.                                       *)
(***************************************************************************)
EXTENDS Integers, Sequences, FiniteSets, TLC

VARIABLES
    pc,             \* position in main.py's pipeline / in the aligner's loops
    word_table,     \* formatted_transcript['word_table'], one record per word
    cue_table,      \* formatted_transcript['cue_table'], one record per cue
    whisper,        \* formatted_whisper_transcript, one record per word
    ref_idx,        \* aligner: reference cursor
    hyp_idx,        \* aligner: hypothesis cursor
    anchor_found,   \* aligner: has any match succeeded
    window_end,     \* aligner: end of the scanned window
    candidates,     \* aligner: candidates of the current match attempt
    aligned,        \* aligner output / interpolator in-place data
    utterances,     \* reintegrated_utterances
    srt_chunks,     \* chunk_reintegrated_utterances' result
    normalised,     \* normalise_subtitle_timings' result
    WHISPER_MODEL_CACHE,  \* whisper_utils: key -> cached model handle
    WHISPER_MODEL_LOCK,   \* whisper_utils: the thread that holds the lock
    tpc,            \* _get_whisper_model: each calling thread's position
    key,            \* _get_whisper_model: each calling thread's key
    model,          \* the handle whisper.load_model returned to a thread
    loads,          \* how often whisper.load_model was called, per key
    returned        \* the (key, handle) pairs _get_whisper_model returned

vars == <<pc, word_table, cue_table, whisper, ref_idx, hyp_idx, anchor_found,
          window_end, candidates, aligned, utterances, srt_chunks, normalised,
          WHISPER_MODEL_CACHE, WHISPER_MODEL_LOCK, tpc, key, model, loads, returned>>

pipeVars == <<pc, word_table, cue_table, whisper, ref_idx, hyp_idx, anchor_found,
              window_end, candidates, aligned, utterances, srt_chunks, normalised>>
modelVars == <<WHISPER_MODEL_CACHE, WHISPER_MODEL_LOCK, tpc, key, model, loads, returned>>

alignVars == <<ref_idx, hyp_idx, anchor_found, window_end, candidates, aligned>>
postVars == <<utterances, srt_chunks, normalised>>

----------------------------------------------------------------------------
(* Bounds of the model and arguments of the calls.                         *)

\* longest reference word list
MaxRef == 4
\* longest hypothesis word list
MaxHyp == 4
\* initial_window argument of align_transcript_to_whisper (default 5)
initial_window == 2
\* max_window argument of align_transcript_to_whisper (default 12)
max_window == 3

\* most words of a timed word table (cue pipeline)
MaxWords == 3
\* most cues of a cue table
MaxCues == 2
\* most subtitles of a list handed to the normaliser alone
MaxSubs == 2

seq_len == 2
match_threshold == 70

\* ticks per second
Sec == 3 * 100

None == <<>>
Some(x) == <<x>>
Val(o) == o[1]

Min(a, b) == IF a <= b THEN a ELSE b
Max(a, b) == IF a >= b THEN a ELSE b

\* the normalised reference words the inputs are drawn from: "", "aa", "b"
\* ("aa " against the lone last hypothesis word "aa" scores 80: a shingle of
\* two reference words can match a shingle clipped by the hypothesis end)
Words == {<<>>, <<"a", "a">>, <<"b">>}
\* the normalised hypothesis words: "" (a silence placeholder) and "aa"
HypWords == {<<>>, <<"a", "a">>}

SeqsUpTo(S, n) == UNION {[1..k -> S] : k \in 0..n}

----------------------------------------------------------------------------
(* Python string and list helpers.                                         *)

\* s[a:b]
Slice(s, a, b) == SubSeq(s, a + 1, Min(b, Len(s)))

\* " ".join(ws)
RECURSIVE Join(_)
Join(ws) ==
    IF ws = <<>> THEN <<>>
    ELSE IF Len(ws) = 1 THEN ws[1]
    ELSE ws[1] \o <<" ">> \o Join(Tail(ws))

\* w.strip() == ""
IsBlank(w) == \A i \in 1..Len(w) : w[i] = " "

\* len(s.split()): the number of maximal runs of non-space characters
SplitCount(s) ==
    Cardinality({i \in 1..Len(s) : s[i] # " " /\ (i = 1 \/ s[i - 1] = " ")})

\* length of a longest common subsequence of s[i..] and t[j..] (1-based)
RECURSIVE LCSFrom(_, _, _, _)
LCSFrom(s, t, i, j) ==
    IF i > Len(s) \/ j > Len(t) THEN 0
    ELSE IF s[i] = t[j] THEN 1 + LCSFrom(s, t, i + 1, j + 1)
    ELSE CHOOSE m \in {Max(x, y) : x \in {LCSFrom(s, t, i + 1, j)},
                                   y \in {LCSFrom(s, t, i, j + 1)}} : TRUE

LCS(s, t) == LCSFrom(s, t, 1, 1)

\* rapidfuzz fuzz.ratio: 100 * (1 - indel_distance / (len1 + len2)), which is
\* 200 * LCS / (len1 + len2), and 100 for two empty strings; kept as the
\* exact fraction num / den.
\* (a set {e} binds e's value once: x \in {e} reads "let x be e")
RatioOf(s, t) ==
    IF Len(s) + Len(t) = 0 THEN [num |-> 100, den |-> 1]
    ELSE [num |-> 200 * LCS(s, t), den |-> Len(s) + Len(t)]

Ratio(s, t) == CHOOSE r \in {RatioOf(x, y) : x \in {s}, y \in {t}} : TRUE

ScoreGE(a, b) == a.num * b.den >= b.num * a.den
ScoreGT(a, b) == a.num * b.den > b.num * a.den
AtLeastThreshold(a) == a.num >= match_threshold * a.den

----------------------------------------------------------------------------
(* _get_whisper_model (whisper_utils.py): the model cache shared by the     *)
(* threads that call get_whisper_transcript.  A step is one bytecode-level  *)
(* access to the cache or to the lock; dictionary reads and writes are      *)
(* atomic.  whisper.load_model returns a new handle at every call.          *)

\* the threads that call _get_whisper_model
NumThreads == 2
Threads == 1..NumThreads
\* whisper.load_model is called at most this often for one key
MaxLoads == 2

\* the (model_name, device) keys
Keys == {<<"small", "cuda">>, <<"small", "cpu">>}

\* the state of the module after import: an empty cache, a free lock
NoCalls ==
    /\ WHISPER_MODEL_CACHE = [k \in Keys |-> None]
    /\ WHISPER_MODEL_LOCK = None
    /\ tpc = [t \in Threads |-> "idle"]
    /\ key = [t \in Threads |-> None]
    /\ model = [t \in Threads |-> None]
    /\ loads = [k \in Keys |-> 0]
    /\ returned = {}

\* a second test that takes the key to be missing without looking
NotCached_unchecked(k) == TRUE
\* line 23: key not in _WHISPER_MODEL_CACHE, under the lock
NotCached(k) == WHISPER_MODEL_CACHE[k] = None

\* line 18: a thread enters _get_whisper_model(model_name, device)
Call(t) ==
    /\ tpc[t] = "idle"
    /\ \E k \in Keys : key' = [key EXCEPT ![t] = Some(k)]
    /\ tpc' = [tpc EXCEPT ![t] = "check"]
    /\ UNCHANGED <<WHISPER_MODEL_CACHE, WHISPER_MODEL_LOCK, model, loads, returned>>
    /\ UNCHANGED pipeVars

\* line 20: if key not in _WHISPER_MODEL_CACHE (no lock held)
FirstCheck(t) ==
    /\ tpc[t] = "check"
    /\ tpc' = [tpc EXCEPT ![t] = IF WHISPER_MODEL_CACHE[Val(key[t])] = None
                                 THEN "acquire" ELSE "return"]
    /\ UNCHANGED <<WHISPER_MODEL_CACHE, WHISPER_MODEL_LOCK, key, model, loads, returned>>
    /\ UNCHANGED pipeVars

\* line 21: with _WHISPER_MODEL_LOCK: the lock is taken when it is free
Acquire(t) ==
    /\ tpc[t] = "acquire"
    /\ WHISPER_MODEL_LOCK = None
    /\ WHISPER_MODEL_LOCK' = Some(t)
    /\ tpc' = [tpc EXCEPT ![t] = "recheck"]
    /\ UNCHANGED <<WHISPER_MODEL_CACHE, key, model, loads, returned>>
    /\ UNCHANGED pipeVars

\* line 23: the second check, under the lock
SecondCheck(t) ==
    /\ tpc[t] = "recheck"
    /\ tpc' = [tpc EXCEPT ![t] = IF NotCached(Val(key[t])) THEN "load" ELSE "release"]
    /\ UNCHANGED <<WHISPER_MODEL_CACHE, WHISPER_MODEL_LOCK, key, model, loads, returned>>
    /\ UNCHANGED pipeVars

\* lines 24-27, right-hand side: whisper.load_model(model_name, device=device)
Load(t) ==
    /\ tpc[t] = "load"
    /\ loads[Val(key[t])] < MaxLoads
    /\ loads' = [loads EXCEPT ![Val(key[t])] = @ + 1]
    /\ model' = [model EXCEPT ![t] = Some(<<Val(key[t]), loads[Val(key[t])] + 1>>)]
    /\ tpc' = [tpc EXCEPT ![t] = "store"]
    /\ UNCHANGED <<WHISPER_MODEL_CACHE, WHISPER_MODEL_LOCK, key, returned>>
    /\ UNCHANGED pipeVars

\* line 24: _WHISPER_MODEL_CACHE[key] = the loaded model
Store(t) ==
    /\ tpc[t] = "store"
    /\ WHISPER_MODEL_CACHE' = [WHISPER_MODEL_CACHE EXCEPT ![Val(key[t])] = model[t]]
    /\ model' = [model EXCEPT ![t] = None]
    /\ tpc' = [tpc EXCEPT ![t] = "release"]
    /\ UNCHANGED <<WHISPER_MODEL_LOCK, key, loads, returned>>
    /\ UNCHANGED pipeVars

\* the end of the with block: the lock is released
Release(t) ==
    /\ tpc[t] = "release"
    /\ WHISPER_MODEL_LOCK' = None
    /\ tpc' = [tpc EXCEPT ![t] = "return"]
    /\ UNCHANGED <<WHISPER_MODEL_CACHE, key, model, loads, returned>>
    /\ UNCHANGED pipeVars

\* line 29: return _WHISPER_MODEL_CACHE[key] (a KeyError when the key is absent)
Return(t) ==
    /\ tpc[t] = "return"
    /\ returned' = returned \cup
           {<<Val(key[t]),
              IF WHISPER_MODEL_CACHE[Val(key[t])] = None THEN "KeyError"
              ELSE Val(WHISPER_MODEL_CACHE[Val(key[t])])>>}
    /\ key' = [key EXCEPT ![t] = None]
    /\ tpc' = [tpc EXCEPT ![t] = "idle"]
    /\ UNCHANGED <<WHISPER_MODEL_CACHE, WHISPER_MODEL_LOCK, model, loads>>
    /\ UNCHANGED pipeVars

----------------------------------------------------------------------------
(* align_transcript_to_whisper (alignment.py)                              *)

transcript_words == [i \in 1..Len(word_table) |-> word_table[i].word_norm]
whisper_words == [i \in 1..Len(whisper) |-> whisper[i].word_norm]
start_times == [i \in 1..Len(whisper) |-> whisper[i].start_time]
end_times == [i \in 1..Len(whisper) |-> whisper[i].end_time]
len_ref == Len(transcript_words)
len_hyp == Len(whisper_words)

\* the shingle of the reference words at the cursor
ref_seq == Join(Slice(transcript_words, ref_idx, ref_idx + seq_len))

\* the shingle of the hypothesis words at idx
hyp_seq_at(idx) == Join(Slice(whisper_words, idx, idx + seq_len))

\* all(w.strip() == "" for w in whisper_words[hyp_idx:hyp_idx + initial_window])
candidate_window == Slice(whisper_words, hyp_idx, hyp_idx + initial_window)
NoSpeechYet == \A i \in 1..Len(candidate_window) : IsBlank(candidate_window[i])

\* for idx in range(lo, hi): the (idx, score, len(hyp_seq.split())) appended
RECURSIVE ScanRange(_, _)
ScanRange(lo, hi) ==
    IF lo >= hi THEN <<>>
    ELSE LET hyp_seq == hyp_seq_at(lo)
             score == Ratio(ref_seq, hyp_seq)
         IN (IF AtLeastThreshold(score)
             THEN <<[idx |-> lo, score |-> score, hyp_seq_len |-> SplitCount(hyp_seq)]>>
             ELSE <<>>) \o ScanRange(lo + 1, hi)

\* the loop's exit test: candidates or window_end >= min(hyp_idx + max_window, len_hyp)
WindowExhausted(w) == w >= Min(hyp_idx + max_window, len_hyp)

\* window_end = min(window_end + 2, len_hyp)
ExpandWindow(w) == Min(w + 2, len_hyp)

\* a selection that takes the last candidate of maximal score
BestCandidate_last(c) ==
    c[CHOOSE i \in 1..Len(c) :
        /\ \A j \in 1..Len(c) : ScoreGE(c[i].score, c[j].score)
        /\ \A j \in (i + 1)..Len(c) : ScoreGT(c[i].score, c[j].score)]
\* max(candidates, key=lambda x: x[1]): the first candidate of maximal score
BestCandidate(c) ==
    c[CHOOSE i \in 1..Len(c) :
        /\ \A j \in 1..Len(c) : ScoreGE(c[i].score, c[j].score)
        /\ \A j \in 1..(i - 1) : ScoreGT(c[i].score, c[j].score)]

\* for i in range(seq_len): the records appended on a match
RECURSIVE MatchRecords(_, _, _)
MatchRecords(i, r, best) ==
    IF i >= seq_len THEN <<>>
    ELSE (IF r + i < len_ref /\ best.idx + i < len_hyp
          THEN <<[ref_idx |-> r + i,
                  hyp_idx |-> Some(best.idx + i),
                  start_time |-> Some(start_times[best.idx + i + 1]),
                  end_time |-> Some(end_times[best.idx + i + 1]),
                  score |-> Some(best.score)]>>
          ELSE <<>>) \o MatchRecords(i + 1, r, best)

\* a miss that writes a record with times
NullRecord_timed(r) ==
    [ref_idx |-> r, hyp_idx |-> None, start_time |-> Some(0), end_time |-> Some(0),
     score |-> None]
\* the record appended when no candidate was found
NullRecord(r) ==
    [ref_idx |-> r, hyp_idx |-> None, start_time |-> None, end_time |-> None,
     score |-> None]

\* a match that advances the reference cursor by one word only
RefAfterMatch_one(r) == r + 1
\* ref_idx += seq_len
RefAfterMatch(r) == r + seq_len
\* hyp_idx = best_idx + hyp_seq_len
HypAfterMatch(best) == best.idx + best.hyp_seq_len
\* a miss that leaves the reference cursor where it is
RefAfterMiss_stuck(r) == r
\* ref_idx += 1 (no match)
RefAfterMiss(r) == r + 1
\* ref_idx += 1 (pre-anchor skip)
RefAfterSkip(r) == r + 1

\* lines 34-41: skip until some speech exists
PreAnchorSkip ==
    /\ pc = "loop"
    /\ ref_idx < len_ref
    /\ ~anchor_found /\ NoSpeechYet
    /\ ref_idx' = RefAfterSkip(ref_idx)
    /\ UNCHANGED <<pc, word_table, cue_table, whisper, hyp_idx, anchor_found,
                   window_end, candidates, aligned, postVars>>
    /\ UNCHANGED modelVars


\* lines 46-47: open the window
StartSearch ==
    /\ pc = "loop"
    /\ ref_idx < len_ref
    /\ ~(~anchor_found /\ NoSpeechYet)
    /\ window_end' = Min(hyp_idx + initial_window, len_hyp)
    /\ candidates' = <<>>
    /\ pc' = "scan"
    /\ UNCHANGED <<word_table, cue_table, whisper, ref_idx, hyp_idx, anchor_found,
                   aligned, postVars>>
    /\ UNCHANGED modelVars


\* lines 49-69: one pass of the while True loop: the window is scanned, then
\* the loop breaks (candidates, or the window is exhausted) or expands it
Scan ==
    /\ pc = "scan"
    /\ \E found \in {candidates \o ScanRange(hyp_idx, window_end)} :
          /\ candidates' = found
          /\ IF found # <<>> \/ WindowExhausted(window_end)
             THEN pc' = "decide" /\ window_end' = window_end
             ELSE pc' = "scan" /\ window_end' = ExpandWindow(window_end)
    /\ UNCHANGED <<word_table, cue_table, whisper, ref_idx, hyp_idx, anchor_found,
                   aligned, postVars>>
    /\ UNCHANGED modelVars


\* lines 74-98: anchor found
Match ==
    /\ pc = "decide"
    /\ candidates # <<>>
    /\ \E best \in {BestCandidate(candidates)} :
          /\ aligned' = aligned \o MatchRecords(0, ref_idx, best)
          /\ ref_idx' = RefAfterMatch(ref_idx)
          /\ hyp_idx' = HypAfterMatch(best)
    /\ anchor_found' = TRUE
    /\ pc' = "loop"
    /\ UNCHANGED <<word_table, cue_table, whisper, window_end, candidates, postVars>>
    /\ UNCHANGED modelVars


\* lines 103-118: no match found
NoMatch ==
    /\ pc = "decide"
    /\ candidates = <<>>
    /\ aligned' = Append(aligned, NullRecord(ref_idx))
    /\ ref_idx' = RefAfterMiss(ref_idx)
    /\ pc' = "loop"
    /\ UNCHANGED <<word_table, cue_table, whisper, hyp_idx, anchor_found,
                   window_end, candidates, postVars>>
    /\ UNCHANGED modelVars


\* lines 26, 120: the while loop ends and the records are returned
AlignReturn ==
    /\ pc = "loop"
    /\ ~(ref_idx < len_ref)
    /\ pc' = "aligned"
    /\ UNCHANGED <<word_table, cue_table, whisper, alignVars, postVars>>
    /\ UNCHANGED modelVars


----------------------------------------------------------------------------
(* interpolate_missing_times (postprocess.py)                              *)

\* the fallback duration 0.2
FallbackDuration == Sec \div 5

\* prev_idx after "while prev_idx >= 0 and data[prev_idx]['start_time'] is None"
RECURSIVE PrevValid(_, _)
PrevValid(data, k) ==
    IF k >= 0 /\ data[k + 1].start_time = None THEN PrevValid(data, k - 1) ELSE k

\* next_idx after "while next_idx < n and data[next_idx]['start_time'] is None"
RECURSIVE NextValid(_, _)
NextValid(data, k) ==
    IF k < Len(data) /\ data[k + 1].start_time = None THEN NextValid(data, k + 1) ELSE k

\* gap / steps
Delta(gap, steps) == gap \div steps

\* the body of the for loop for one i (the data is changed in place)
InterpolateAt(data, i) ==
    IF data[i + 1].start_time # None THEN data
    ELSE LET n == Len(data)
             prev_idx == PrevValid(data, i - 1)
             next_idx == NextValid(data, i + 1)
         IN IF prev_idx >= 0 /\ next_idx < n
            THEN LET prev_time == Val(data[prev_idx + 1].end_time)
                     next_time == Val(data[next_idx + 1].start_time)
                     delta == Delta(next_time - prev_time, next_idx - prev_idx)
                 IN [data EXCEPT
                       ![i + 1].start_time = Some(prev_time + delta * (i - prev_idx)),
                       ![i + 1].end_time = Some(prev_time + delta * (i - prev_idx + 1))]
            ELSE IF prev_idx >= 0
            THEN LET prev_end == Val(data[prev_idx + 1].end_time)
                 IN [data EXCEPT
                       ![i + 1].start_time = Some(prev_end),
                       ![i + 1].end_time = Some(prev_end + FallbackDuration)]
            ELSE IF next_idx < n
            THEN LET next_start == Val(data[next_idx + 1].start_time)
                 IN [data EXCEPT
                       ![i + 1].start_time = Some(next_start - FallbackDuration),
                       ![i + 1].end_time = Some(next_start)]
            ELSE [data EXCEPT
                       ![i + 1].start_time = Some(0),
                       ![i + 1].end_time = Some(FallbackDuration)]

\* for i in range(n), from i on
RECURSIVE InterpolateFrom(_, _)
InterpolateFrom(data, i) ==
    IF i >= Len(data) THEN data
    ELSE CHOOSE r \in {InterpolateFrom(d, i + 1) : d \in {InterpolateAt(data, i)}} : TRUE

interpolate_missing_times(data) == InterpolateFrom(data, 0)

\* main.py line 23
Interpolate ==
    /\ pc = "aligned"
    /\ aligned' = interpolate_missing_times(aligned)
    /\ pc' = "interpolated"
    /\ UNCHANGED <<word_table, cue_table, whisper, ref_idx, hyp_idx, anchor_found,
                   window_end, candidates, postVars>>
    /\ UNCHANGED modelVars


----------------------------------------------------------------------------
(* insert_word_table_times (utils.py)                                      *)

\* for i, word_info in enumerate(interpolated_transcript): row i is written
insert_word_table_times(wt, interpolated) ==
    [i \in 1..Len(wt) |->
        IF i <= Len(interpolated)
        THEN [wt[i] EXCEPT
                !.start_time = interpolated[i].start_time,
                !.end_time = interpolated[i].end_time,
                !.aligned = (interpolated[i].start_time # None),
                !.confidence = interpolated[i].score]
        ELSE wt[i]]

\* main.py line 25
InsertTimes ==
    /\ pc = "interpolated"
    /\ word_table' = insert_word_table_times(word_table, aligned)
    /\ pc' = "inserted"
    /\ UNCHANGED <<cue_table, whisper, alignVars, postVars>>
    /\ UNCHANGED modelVars


----------------------------------------------------------------------------
(* The aligner's inputs and the specification of main.py lines 22-25.      *)

\* transcript_to_alignment_tables: one row per word, times not yet known
WordRow(norm, k, utt, spk, pos) ==
    [word_norm |-> norm, word_raw |-> <<"w", k>>, speaker_id |-> spk,
     utterance_id |-> utt, pos_in_utt |-> pos,
     start_time |-> None, end_time |-> None, aligned |-> FALSE, confidence |-> None]

WordTableOf(ws) == [i \in 1..Len(ws) |-> WordRow(ws[i], i - 1, 0, 0, i - 1)]

\* whisper_segments_to_word_table: word k is heard from 2k s to 2k + 1 s
WhisperOf(ws) ==
    [i \in 1..Len(ws) |->
        [word_norm |-> ws[i], start_time |-> 2 * (i - 1) * Sec,
         end_time |-> (2 * (i - 1) + 1) * Sec]]

Init ==
    /\ pc = "loop"
    /\ word_table \in {WordTableOf(ws) : ws \in SeqsUpTo(Words, MaxRef)}
    /\ whisper \in {WhisperOf(ws) : ws \in SeqsUpTo(HypWords, MaxHyp)}
    /\ cue_table = <<>>
    /\ ref_idx = 0
    /\ hyp_idx = 0
    /\ anchor_found = FALSE
    /\ window_end = 0
    /\ candidates = <<>>
    /\ aligned = <<>>
    /\ utterances = <<>>
    /\ srt_chunks = <<>>
    /\ normalised = <<>>
    /\ NoCalls


Next ==
    \/ PreAnchorSkip
    \/ StartSearch
    \/ Scan
    \/ Match
    \/ NoMatch
    \/ AlignReturn
    \/ Interpolate
    \/ InsertTimes

Spec == Init /\ [][Next]_vars

----------------------------------------------------------------------------
(* reinsert_cues_with_interpolation (postprocess.py)                       *)
(*                                                                         *)
(* A text is kept as the list of its whitespace-separated tokens: a word's *)
(* raw text is one token, ' '.join(pieces) is the concatenation of the     *)
(* pieces' tokens and text.strip().split() is the list itself.             *)

min_display_time == 2 * Sec
max_display_time == 6 * Sec

\* Python's "x or d" on an optional number: None and 0.0 are falsy
OrElse(o, d) == IF o = None \/ Val(o) = 0 THEN d ELSE Val(o)

\* ' '.join(pieces)
RECURSIVE JoinText(_)
JoinText(pieces) ==
    IF pieces = <<>> THEN <<>> ELSE Head(pieces) \o JoinText(Tail(pieces))

\* the keys of utterance_words, in insertion order (first appearance)
RECURSIVE UttIdsFrom(_, _, _)
UttIdsFrom(wt, i, seen) ==
    IF i > Len(wt) THEN seen
    ELSE IF \E k \in 1..Len(seen) : seen[k] = wt[i].utterance_id
         THEN UttIdsFrom(wt, i + 1, seen)
         ELSE UttIdsFrom(wt, i + 1, Append(seen, wt[i].utterance_id))

\* the first row of utterance u (its speaker is the utterance's speaker)
FirstRowOf(wt, u) == wt[CHOOSE i \in 1..Len(wt) :
                          /\ wt[i].utterance_id = u
                          /\ \A j \in 1..(i - 1) : wt[j].utterance_id # u]

\* lines 57-70: utterance_words and utterance_speakers
GroupWords(wt) ==
    LET ids == UttIdsFrom(wt, 1, <<>>)
        IsOf(u) == LET Test(row) == row.utterance_id = u IN SelectSeq(wt, Test)
        AsWord(row) == [word |-> <<row.word_raw>>, start_time |-> row.start_time,
                        end_time |-> row.end_time, pos_in_utt |-> row.pos_in_utt]
    IN [k \in 1..Len(ids) |->
           [utt_id |-> ids[k],
            speaker_id |-> FirstRowOf(wt, ids[k]).speaker_id,
            words |-> [j \in 1..Len(IsOf(ids[k])) |-> AsWord(IsOf(ids[k])[j])]]]

\* the duration clamp to [min_display_time, max_display_time] around start
ClampEnd(start, end) ==
    IF end - start < min_display_time THEN start + min_display_time
    ELSE IF end - start > max_display_time THEN start + max_display_time
    ELSE end

\* lines 82-99: the unit appended for a standalone cue
StandaloneUnit(cue) ==
    LET start_time == OrElse(cue.start_time, 0)
        end_time == OrElse(cue.end_time, start_time + min_display_time)
    IN [text |-> cue.text,
        start_time |-> Some(start_time),
        end_time |-> Some(ClampEnd(start_time, end_time)),
        type |-> "cue",
        words |-> <<>>,
        speaker_id |-> None,
        speaker_name |-> None]

\* lines 106-118: where an inline cue starts and ends before the clamp
CueSpan(word_list, offset) ==
    IF offset = 0
    THEN LET cue_start == Val(word_list[1].start_time)
         IN <<cue_start, cue_start + min_display_time>>
    ELSE IF offset >= Len(word_list)
    THEN LET cue_start == Val(word_list[Len(word_list)].end_time)
         IN <<cue_start, cue_start + min_display_time>>
    ELSE <<Val(word_list[offset].end_time), Val(word_list[offset + 1].start_time)>>

\* list.insert(offset, x)
InsertAt(list, offset, x) ==
    LET k == Min(offset, Len(list))
    IN SubSeq(list, 1, k) \o <<x>> \o SubSeq(list, k + 1, Len(list))

\* lines 103-132: an inline cue spliced into its utterance's word list
SpliceCue(word_list, cue) ==
    LET offset == Val(cue.word_offset)
        span == CueSpan(word_list, offset)
    IN InsertAt(word_list, offset,
                [word |-> cue.text,
                 start_time |-> Some(span[1]),
                 end_time |-> Some(ClampEnd(span[1], span[2])),
                 pos_in_utt |-> offset])

IsStandalone(cue) == ~cue.is_inline \/ cue.utterance_id = None

\* lines 75-132: the cue loop from cue i on; st = [uw, out]
RECURSIVE ProcessCues(_, _, _)
ProcessCues(cues, i, st) ==
    IF i > Len(cues) THEN st
    ELSE LET cue == cues[i]
             hit == {k \in 1..Len(st.uw) : cue.utterance_id = Some(st.uw[k].utt_id)}
         IN IF IsStandalone(cue)
            THEN ProcessCues(cues, i + 1,
                             [st EXCEPT !.out = Append(@, StandaloneUnit(cue))])
            ELSE IF hit # {}
            THEN LET k == CHOOSE k \in hit : TRUE
                 IN ProcessCues(cues, i + 1,
                                [st EXCEPT !.uw[k].words = SpliceCue(@, cue)])
            ELSE ProcessCues(cues, i + 1, st)

MinOf(S) == CHOOSE x \in S : \A y \in S : x <= y
MaxOf(S) == CHOOSE x \in S : \A y \in S : x >= y

\* speakers['to_name'][speaker_id]
SpeakerName(speaker_id) == <<"name", speaker_id>>

\* lines 135-149: the speech unit of one utterance
SpeechUnit(u) ==
    LET starts == {Val(u.words[j].start_time) :
                       j \in {j \in 1..Len(u.words) : u.words[j].start_time # None}}
        ends == {Val(u.words[j].end_time) :
                       j \in {j \in 1..Len(u.words) : u.words[j].end_time # None}}
    IN [text |-> JoinText([j \in 1..Len(u.words) |-> u.words[j].word]),
        start_time |-> IF starts # {} THEN Some(MinOf(starts)) ELSE None,
        end_time |-> IF ends # {} THEN Some(MaxOf(ends)) ELSE None,
        type |-> "speech",
        words |-> u.words,
        speaker_id |-> Some(u.speaker_id),
        speaker_name |-> Some(SpeakerName(u.speaker_id))]

\* the sort key: start_time, None last
KeyLE(a, b) ==
    b.start_time = None \/ (a.start_time # None /\ Val(a.start_time) <= Val(b.start_time))

\* list.sort(key=...), a stable sort: x goes after the elements not greater
RECURSIVE InsertSorted(_, _)
InsertSorted(sorted, x) ==
    IF sorted = <<>> THEN <<x>>
    ELSE IF KeyLE(Head(sorted), x) THEN <<Head(sorted)>> \o InsertSorted(Tail(sorted), x)
    ELSE <<x>> \o sorted

RECURSIVE SortByStart(_, _, _)
SortByStart(units, i, sorted) ==
    IF i > Len(units) THEN sorted
    ELSE SortByStart(units, i + 1, InsertSorted(sorted, units[i]))

reinsert_cues_with_interpolation(wt, cues) ==
    LET st == ProcessCues(cues, 1, [uw |-> GroupWords(wt), out |-> <<>>])
        units == st.out \o [k \in 1..Len(st.uw) |-> SpeechUnit(st.uw[k])]
    IN SortByStart(units, 1, <<>>)

\* main.py line 26
Reinsert ==
    /\ pc = "inserted"
    /\ utterances' = reinsert_cues_with_interpolation(word_table, cue_table)
    /\ pc' = "reinserted"
    /\ UNCHANGED <<word_table, cue_table, whisper, alignVars, srt_chunks, normalised>>
    /\ UNCHANGED modelVars


----------------------------------------------------------------------------
(* chunk_utterance_for_srt, chunk_reintegrated_utterances (postprocess.py) *)

\* max_words argument of chunk_utterance_for_srt (default 15)
max_words == 2
max_duration == 6 * Sec
min_duration == 2 * Sec

\* lines 182-187: the extension loop; the result is <<end_idx, chunk_end_time>>
RECURSIVE ExtendChunk(_, _, _, _)
ExtendChunk(words, chunk_start_time, end_idx, chunk_end_time) ==
    IF chunk_end_time - chunk_start_time < min_duration /\ end_idx < Len(words)
    THEN LET end2 == OrElse(words[end_idx + 1].end_time, chunk_end_time)
         IN IF end2 - chunk_start_time >= max_duration
            THEN <<end_idx + 1, end2>>
            ELSE ExtendChunk(words, chunk_start_time, end_idx + 1, end2)
    ELSE <<end_idx, chunk_end_time>>

\* a chunker that steps over the word after the chunk
NextChunkStart_skip(end_idx) == end_idx + 1
\* start_idx = end_idx
NextChunkStart(end_idx) == end_idx

\* lines 172-203: the chunks of one utterance from start_idx (0-based) on
RECURSIVE ChunksFrom(_, _)
ChunksFrom(utt, start_idx) ==
    IF start_idx >= Len(utt.words) THEN <<>>
    ELSE LET words == utt.words
             end_idx0 == Min(start_idx + max_words, Len(words))
             chunk_start_time == OrElse(words[start_idx + 1].start_time, 0)
             end0 == OrElse(words[end_idx0].end_time, chunk_start_time + min_duration)
             ext == ExtendChunk(words, chunk_start_time, end_idx0, end0)
             end_idx == ext[1]
             chunk_end_time ==
                 IF ext[2] - chunk_start_time > max_duration
                 THEN chunk_start_time + max_duration ELSE ext[2]
         IN <<[text |-> JoinText([j \in 1..(end_idx - start_idx) |->
                                      words[start_idx + j].word]),
               start_time |-> chunk_start_time,
               end_time |-> chunk_end_time,
               speaker_name |-> utt.speaker_name,
               speaker_id |-> utt.speaker_id,
               type |-> utt.type]>>
            \o ChunksFrom(utt, NextChunkStart(end_idx))

chunk_utterance_for_srt(utt) == ChunksFrom(utt, 0)

RECURSIVE ChunkAll(_, _)
ChunkAll(utts, i) ==
    IF i > Len(utts) THEN <<>>
    ELSE chunk_utterance_for_srt(utts[i]) \o ChunkAll(utts, i + 1)

chunk_reintegrated_utterances(utts) == ChunkAll(utts, 1)

\* main.py line 28
Chunk ==
    /\ pc = "reinserted"
    /\ srt_chunks' = chunk_reintegrated_utterances(utterances)
    /\ pc' = "chunked"
    /\ UNCHANGED <<word_table, cue_table, whisper, alignVars, utterances, normalised>>
    /\ UNCHANGED modelVars


----------------------------------------------------------------------------
(* normalise_subtitle_timings (postprocess.py)                             *)

post_padding == Sec \div 4
absolute_floor == Sec
multi_word_floor == (3 * Sec) \div 2
seconds_per_word == (33 * Sec) \div 100

\* lines 241-249: the minimum duration of a subtitle
MinDuration(sub) ==
    LET word_count == Len(sub.text)
        floor == IF word_count > 1 THEN Max(absolute_floor, multi_word_floor)
                 ELSE absolute_floor
    IN Max(floor, word_count * seconds_per_word)

\* lines 252-253: the end after the minimum duration is enforced
FlooredEnd(sub) ==
    IF sub.end_time - sub.start_time < MinDuration(sub)
    THEN sub.start_time + MinDuration(sub) ELSE sub.end_time

\* lines 263-267
SameSpeaker(prev, sub) ==
    /\ prev.speaker_id = sub.speaker_id
    /\ sub.type = "speech"
    /\ prev.type = "speech"

\* lines 258-272: the padded end, clamped against the previous normalised chunk
PaddedEnd(done, sub, end) ==
    LET padded_end == end + post_padding
    IN IF done # <<>>
          /\ SameSpeaker(done[Len(done)], sub)
          /\ padded_end > done[Len(done)].start_time
       THEN Min(padded_end, done[Len(done)].start_time)
       ELSE padded_end

\* a normaliser that takes the padded end as it is
FinalEnd_padded(end, padded_end) == padded_end
\* line 274: end = max(end, padded_end)
FinalEnd(end, padded_end) == Max(end, padded_end)

\* lines 234-283: the loop from subtitle i on
RECURSIVE NormaliseFrom(_, _, _)
NormaliseFrom(subs, i, done) ==
    IF i > Len(subs) THEN done
    ELSE LET sub == subs[i]
             end == FlooredEnd(sub)
         IN NormaliseFrom(subs, i + 1,
                Append(done, [sub EXCEPT
                                !.end_time = FinalEnd(end, PaddedEnd(done, sub, end))]))

normalise_subtitle_timings(subs) == NormaliseFrom(subs, 1, <<>>)

\* main.py line 29
Normalise ==
    /\ pc = "chunked"
    /\ normalised' = normalise_subtitle_timings(srt_chunks)
    /\ pc' = "normalised"
    /\ UNCHANGED <<word_table, cue_table, whisper, alignVars, utterances, srt_chunks>>
    /\ UNCHANGED modelVars


----------------------------------------------------------------------------
(* The cue pipeline, main.py lines 26-29, from a timed word table.         *)

\* a word table after insert_word_table_times: n words of duration d back to
\* back from 0; the first k are utterance 0 (speaker 0), the rest utterance 1
TimedWordTable(n, k, spk1, d) ==
    [i \in 1..n |->
        [WordRow(<<"a">>, i - 1,
                 IF i <= k THEN 0 ELSE 1,
                 IF i <= k THEN 0 ELSE spk1,
                 IF i <= k THEN i - 1 ELSE i - 1 - k)
         EXCEPT !.start_time = Some((i - 1) * d),
                !.end_time = Some(i * d),
                !.aligned = TRUE,
                !.confidence = Some([num |-> 100, den |-> 1])]]

WordDurations == {Sec \div 2, Sec, 4 * Sec}

TimedWordTables ==
    UNION {{TimedWordTable(n, k, spk1, d) :
               k \in 1..n, spk1 \in {0, 1}, d \in WordDurations} : n \in 1..MaxWords}

\* the cue rows transcript_to_alignment_tables writes (times None), and a
\* standalone cue that carries a 8 s span
CueKinds ==
    {[utterance_id |-> None, word_offset |-> None, start_time |-> None,
      end_time |-> None, is_inline |-> FALSE],
     [utterance_id |-> None, word_offset |-> None, start_time |-> Some(Sec),
      end_time |-> Some(9 * Sec), is_inline |-> FALSE]}
    \cup {[utterance_id |-> Some(u), word_offset |-> Some(k), start_time |-> None,
           end_time |-> None, is_inline |-> TRUE] : u \in {0, 1}, k \in 0..MaxWords}

CueRow(kind, id) ==
    [cue_id |-> id, utterance_id |-> kind.utterance_id,
     word_offset |-> kind.word_offset, text |-> << <<"c", id>> >>,
     start_time |-> kind.start_time, end_time |-> kind.end_time,
     is_inline |-> kind.is_inline]

CueTables ==
    {[i \in 1..Len(ks) |-> CueRow(ks[i], i - 1)] : ks \in SeqsUpTo(CueKinds, MaxCues)}

\* extract_tokens_and_cues: an inline cue's word_offset is the number of words
\* of its utterance that precede it
AnchorInRange(wt, cue) ==
    IsStandalone(cue)
    \/ Val(cue.word_offset)
           <= Cardinality({i \in 1..Len(wt) : Some(wt[i].utterance_id) = cue.utterance_id})

InitCue ==
    /\ pc = "inserted"
    /\ word_table \in TimedWordTables
    /\ cue_table \in {ct \in CueTables : \A i \in 1..Len(ct) : AnchorInRange(word_table, ct[i])}
    /\ whisper = <<>>
    /\ ref_idx = 0
    /\ hyp_idx = 0
    /\ anchor_found = FALSE
    /\ window_end = 0
    /\ candidates = <<>>
    /\ aligned = <<>>
    /\ utterances = <<>>
    /\ srt_chunks = <<>>
    /\ normalised = <<>>
    /\ NoCalls


NextCue ==
    \/ Reinsert
    \/ Chunk
    \/ Normalise

SpecCue == InitCue /\ [][NextCue]_vars

----------------------------------------------------------------------------
(* normalise_subtitle_timings on its own, from a list sorted by start_time. *)

SubWordCounts == {1, 2, 5}
SubGaps == {0, Sec, 2 * Sec}
SubDurations == {Sec \div 2, 2 * Sec}
SubVoices == {[type |-> "speech", speaker_id |-> Some(0)],
              [type |-> "speech", speaker_id |-> Some(1)],
              [type |-> "cue", speaker_id |-> None]}

SubShapes == [wc : SubWordCounts, gap : SubGaps, dur : SubDurations, voice : SubVoices]

RECURSIVE StartOf(_, _)
StartOf(shapes, i) == IF i = 0 THEN 0 ELSE StartOf(shapes, i - 1) + shapes[i].gap

SubtitlesOf(shapes) ==
    [i \in 1..Len(shapes) |->
        [text |-> [j \in 1..shapes[i].wc |-> <<"w", j>>],
         start_time |-> StartOf(shapes, i),
         end_time |-> StartOf(shapes, i) + shapes[i].dur,
         speaker_name |-> IF shapes[i].voice.speaker_id = None THEN None
                          ELSE Some(SpeakerName(Val(shapes[i].voice.speaker_id))),
         speaker_id |-> shapes[i].voice.speaker_id,
         type |-> shapes[i].voice.type]]

InitNorm ==
    /\ pc = "chunked"
    /\ srt_chunks \in {SubtitlesOf(shapes) : shapes \in SeqsUpTo(SubShapes, MaxSubs)}
    /\ word_table = <<>>
    /\ cue_table = <<>>
    /\ whisper = <<>>
    /\ ref_idx = 0
    /\ hyp_idx = 0
    /\ anchor_found = FALSE
    /\ window_end = 0
    /\ candidates = <<>>
    /\ aligned = <<>>
    /\ utterances = <<>>
    /\ normalised = <<>>
    /\ NoCalls


NextNorm == Normalise

SpecNorm == InitNorm /\ [][NextNorm]_vars

----------------------------------------------------------------------------
(* interpolate_missing_times on its own, from a list of alignment records.  *)

\* longest record list handed to the interpolator alone
MaxRecs == 4

\* a record is a miss (0) or a match with the next hypothesis word (1) or
\* with the one after it (2)
RecordSteps == {0, 1, 2}

\* the hypothesis words consumed by the first i records
RECURSIVE HypWordsUsed(_, _)
HypWordsUsed(steps, i) == IF i = 0 THEN 0 ELSE HypWordsUsed(steps, i - 1) + steps[i]

\* the records the aligner appends: hypothesis word k is heard from 2k s to
\* 2k + 1 s, a miss has no hypothesis word, no times and no score
RecordsOf(steps) ==
    [i \in 1..Len(steps) |->
        IF steps[i] = 0 THEN NullRecord(i - 1)
        ELSE LET k == HypWordsUsed(steps, i) - 1
             IN [ref_idx |-> i - 1,
                 hyp_idx |-> Some(k),
                 start_time |-> Some(2 * k * Sec),
                 end_time |-> Some((2 * k + 1) * Sec),
                 score |-> Some([num |-> 100, den |-> 1])]]

InitInterp ==
    /\ pc = "aligned"
    /\ aligned \in {RecordsOf(steps) : steps \in SeqsUpTo(RecordSteps, MaxRecs)}
    /\ word_table = <<>>
    /\ cue_table = <<>>
    /\ whisper = <<>>
    /\ ref_idx = 0
    /\ hyp_idx = 0
    /\ anchor_found = FALSE
    /\ window_end = 0
    /\ candidates = <<>>
    /\ utterances = <<>>
    /\ srt_chunks = <<>>
    /\ normalised = <<>>
    /\ NoCalls


NextInterp == Interpolate

SpecInterp == InitInterp /\ [][NextInterp]_vars

----------------------------------------------------------------------------
(* Concurrent calls of _get_whisper_model (main.py line 19, from threads).  *)

InitModel ==
    /\ pc = "whisper"
    /\ word_table = <<>>
    /\ cue_table = <<>>
    /\ whisper = <<>>
    /\ ref_idx = 0
    /\ hyp_idx = 0
    /\ anchor_found = FALSE
    /\ window_end = 0
    /\ candidates = <<>>
    /\ aligned = <<>>
    /\ utterances = <<>>
    /\ srt_chunks = <<>>
    /\ normalised = <<>>
    /\ NoCalls

NextModel ==
    \E t \in Threads :
        \/ Call(t)
        \/ FirstCheck(t)
        \/ Acquire(t)
        \/ SecondCheck(t)
        \/ Load(t)
        \/ Store(t)
        \/ Release(t)
        \/ Return(t)

SpecModel == InitModel /\ [][NextModel]_vars

\* the aligner's loops are scheduled until they end (a sequential program)
FairSpec == Spec /\ WF_vars(Next)

----------------------------------------------------------------------------
(* Properties of the aligner, the interpolator and the word table.         *)

AlignerDone == pc \in {"aligned", "interpolated", "inserted"}
Matched(rec) == rec.hyp_idx # None

\* C1: the aligner returns exactly one record per reference word, with
\* ref_idx 0, 1, ..., N-1 in that order (no gaps, no duplicates).
C1_Coverage ==
    AlignerDone =>
        /\ Len(aligned) = len_ref
        /\ \A i \in 1..Len(aligned) : aligned[i].ref_idx = i - 1

\* C2: of two records with a hyp_idx, the later one in the list never has a
\* smaller hyp_idx than the earlier one.
C2_Monotone ==
    \A i \in 1..Len(aligned) : \A j \in (i + 1)..Len(aligned) :
        (Matched(aligned[i]) /\ Matched(aligned[j]))
            => Val(aligned[j].hyp_idx) >= Val(aligned[i].hyp_idx)

\* the hypothesis stream is ordered and non-overlapping in time
HypOrdered ==
    /\ \A i \in 1..Len(whisper) : whisper[i].start_time <= whisper[i].end_time
    /\ \A i \in 1..(Len(whisper) - 1) : whisper[i].end_time <= whisper[i + 1].start_time

\* C3: after interpolation of the aligner's records (hypothesis words ordered
\* and non-overlapping in time) every record has a start_time and an end_time,
\* and start_time <= end_time.
C3_TimesOrdered ==
    (pc = "interpolated" /\ HypOrdered) =>
        \A i \in 1..Len(aligned) :
            /\ aligned[i].start_time # None
            /\ aligned[i].end_time # None
            /\ Val(aligned[i].start_time) <= Val(aligned[i].end_time)

\* C4: after the aligner, the interpolator and insert_word_table_times every
\* row of the reference word table has a start_time and an end_time.
C4_WordTableTimed ==
    pc = "inserted" =>
        \A i \in 1..Len(word_table) :
            word_table[i].start_time # None /\ word_table[i].end_time # None

\* C10: the aligner terminates: every iteration of the outer loop (pre-anchor
\* skip, match, miss) advances the reference cursor by at least 1, every
\* window expansion moves window_end forward (it never passes len_hyp), and
\* the outer loop is eventually left.
C10_Terminates ==
    /\ [][(PreAnchorSkip \/ Match \/ NoMatch) => ref_idx' >= ref_idx + 1]_vars
    /\ [][(pc = "scan" /\ pc' = "scan")
             => (window_end' > window_end /\ window_end' <= len_hyp)]_vars
    /\ <>AlignerDone

\* C10 witness: a run that ended after matches, misses and a window expansion
C10_Witness ==
    /\ pc = "aligned"
    /\ window_end > initial_window
    /\ \E i \in 1..Len(aligned) : Matched(aligned[i])
    /\ \E i \in 1..Len(aligned) : ~Matched(aligned[i])

----------------------------------------------------------------------------
(* Properties of the cue pipeline.                                         *)

Chunked == pc \in {"chunked", "normalised"}

\* C5: every cue of the cue table, standalone or inline, has an output chunk
\* that carries its text and a time span; a standalone cue is its own chunk
\* of type cue with no speaker.
C5_CuesKept ==
    Chunked =>
        \A i \in 1..Len(cue_table) :
            \E c \in 1..Len(srt_chunks) :
                /\ \E j \in 1..Len(srt_chunks[c].text) :
                       srt_chunks[c].text[j] = cue_table[i].text[1]
                /\ IsStandalone(cue_table[i]) =>
                       /\ srt_chunks[c].text = cue_table[i].text
                       /\ srt_chunks[c].type = "cue"
                       /\ srt_chunks[c].speaker_id = None

SortedByStart(chunks) ==
    \A i \in 1..(Len(chunks) - 1) : chunks[i].start_time <= chunks[i + 1].start_time

\* the word table's times are non-decreasing
WordTimesOrdered ==
    /\ \A i \in 1..Len(word_table) :
           Val(word_table[i].start_time) <= Val(word_table[i].end_time)
    /\ \A i \in 1..(Len(word_table) - 1) :
           Val(word_table[i].end_time) <= Val(word_table[i + 1].start_time)

\* C7: the chunk list, and the normalised list, is in non-decreasing
\* start_time order (word times non-decreasing, any cue table).
C7_ChunksSorted ==
    WordTimesOrdered =>
        /\ Chunked => SortedByStart(srt_chunks)
        /\ pc = "normalised" => SortedByStart(normalised)

\* the tokens of every word list of the utterance list, in order
RECURSIVE UtteranceTokens(_, _)
UtteranceTokens(utts, i) ==
    IF i > Len(utts) THEN <<>>
    ELSE JoinText([j \in 1..Len(utts[i].words) |-> utts[i].words[j].word])
         \o UtteranceTokens(utts, i + 1)

\* C9: the chunks split the utterances' word lists into non-empty, contiguous,
\* disjoint ranges in order that hold every word exactly once, and no chunk
\* holds words of two utterances.
C9_ChunksPartition ==
    Chunked =>
        /\ \A c \in 1..Len(srt_chunks) : srt_chunks[c].text # <<>>
        /\ JoinText([c \in 1..Len(srt_chunks) |-> srt_chunks[c].text])
               = UtteranceTokens(utterances, 1)
        /\ \A c \in 1..Len(srt_chunks) :
               \E u \in 1..Len(utterances) :
                   \A j \in 1..Len(srt_chunks[c].text) :
                       \E w \in 1..Len(utterances[u].words) :
                           utterances[u].words[w].word = <<srt_chunks[c].text[j]>>

\* C9 witness: two utterances, one of them cut into two chunks, one chunk
\* extended past max_words
C9_Witness ==
    /\ pc = "chunked"
    /\ Cardinality({u \in 1..Len(utterances) : utterances[u].type = "speech"}) = 2
    /\ Len(srt_chunks) >= 3
    /\ \E c \in 1..Len(srt_chunks) : Len(srt_chunks[c].text) > max_words

----------------------------------------------------------------------------
(* Properties of the normaliser.                                           *)

\* C6: of two consecutive normalised chunks, both speech and of one speaker,
\* the earlier one's final end_time is at most the later one's start_time.
C6_NoSameSpeakerOverlap ==
    pc = "normalised" =>
        \A i \in 1..(Len(normalised) - 1) :
            SameSpeaker(normalised[i], normalised[i + 1])
                => normalised[i].end_time <= normalised[i + 1].start_time

\* the floor of the claim, from the chunk's word count
DurationFloor(c) ==
    LET word_count == Len(c.text)
    IN Max(Max(absolute_floor,
               IF word_count > 1 THEN multi_word_floor ELSE absolute_floor),
           word_count * seconds_per_word)

\* C8: every normalised chunk lasts at least max(absolute_floor,
\* multi_word_floor if it has more than one word, word_count *
\* seconds_per_word), whatever the preceding chunk is.
C8_DurationFloor ==
    pc = "normalised" =>
        \A i \in 1..Len(normalised) :
            normalised[i].end_time - normalised[i].start_time
                >= DurationFloor(normalised[i])

\* C8 witness: a chunk shorter than its floor that follows a speech chunk of
\* the same speaker (the padding clamp acts on it)
C8_Witness ==
    /\ pc = "normalised"
    /\ \E i \in 2..Len(normalised) :
           /\ SameSpeaker(normalised[i - 1], normalised[i])
           /\ srt_chunks[i].end_time - srt_chunks[i].start_time
                  < DurationFloor(srt_chunks[i])

----------------------------------------------------------------------------
(* Further properties of the cue splice.                                   *)

\* the utterance ids of the word table
UtteranceIds == {word_table[i].utterance_id : i \in 1..Len(word_table)}

\* an inline cue whose utterance has no row in the word table
Orphan(cue) == ~IsStandalone(cue) /\ Val(cue.utterance_id) \notin UtteranceIds

\* C11: reinsert_cues_with_interpolation returns no result when the cue table
\* holds an inline cue whose utterance_id is not an utterance of the word
\* table (it fails instead).
C11_OrphanCueFails ==
    pc \in {"reinserted", "chunked", "normalised"} =>
        \A i \in 1..Len(cue_table) : ~Orphan(cue_table[i])

----------------------------------------------------------------------------
(* Further properties of the aligner.                                      *)

\* C12: in a match attempt with the hypothesis cursor at h, every position
\* scored (range(h, window_end) once the scan loop is left) and every
\* candidate index lies in h .. h + max_window - 1.
C12_WindowBounded ==
    (pc = "decide" /\ initial_window <= max_window) =>
        /\ window_end <= hyp_idx + max_window
        /\ \A i \in 1..Len(candidates) :
               /\ hyp_idx <= candidates[i].idx
               /\ candidates[i].idx < hyp_idx + max_window

\* C13: the hypothesis cursor is greater than every hyp_idx written into a
\* record so far, and no hypothesis index appears in two records.
C13_CursorPastRecords ==
    /\ \A i \in 1..Len(aligned) :
           Matched(aligned[i]) => Val(aligned[i].hyp_idx) < hyp_idx
    /\ \A i \in 1..Len(aligned) : \A j \in (i + 1)..Len(aligned) :
           Matched(aligned[i]) => aligned[i].hyp_idx # aligned[j].hyp_idx

\* C14: after the aligner, the interpolator and insert_word_table_times the
\* word-table row at position r carries the start_time, end_time and score of
\* the record whose ref_idx is r, for every record.
C14_RowsCarryTheirRecord ==
    pc = "inserted" =>
        \A i \in 1..Len(aligned) :
            LET row == word_table[aligned[i].ref_idx + 1]
            IN /\ row.start_time = aligned[i].start_time
               /\ row.end_time = aligned[i].end_time
               /\ row.confidence = aligned[i].score

\* is element j of a word list a spliced cue with this text
IsCueToken(w) == w.word[1][1] = "c"

\* the number of transcript words that stand before position p of a word list
WordsBefore(words, p) == Cardinality({j \in 1..(p - 1) : ~IsCueToken(words[j])})

\* C15: after reinsert_cues_with_interpolation every inline cue of an
\* utterance of the word table, of word_offset k, stands in its utterance's
\* word list with exactly the k first words of the utterance before it (right
\* before the word of original position k, or after the last word), however
\* many cues were spliced into the utterance before it.
C15_CueAtItsOffset ==
    pc = "reinserted" =>
        \A i \in 1..Len(cue_table) :
            (~IsStandalone(cue_table[i]) /\ ~Orphan(cue_table[i])) =>
                \E u \in 1..Len(utterances) : \E p \in 1..Len(utterances[u].words) :
                    /\ utterances[u].words[p].word = cue_table[i].text
                    /\ WordsBefore(utterances[u].words, p) = Val(cue_table[i].word_offset)

\* records p < q (1-based positions) that have a hypothesis word and enclose
\* a run of two or more records that have none
NullRun(p, q) ==
    /\ q - p >= 3
    /\ Matched(aligned[p]) /\ Matched(aligned[q])
    /\ \A i \in (p + 1)..(q - 1) : ~Matched(aligned[i])

\* C16: a run of two or more null-timed records between a timed record p (end
\* time E) and a timed record q (start time S) is interpolated with the one
\* delta = (S - E) / (q - p): record i starts at E + (i - p) * delta and ends
\* at E + (i - p + 1) * delta (both sides multiplied by q - p).
C16_UniformDelta ==
    pc = "interpolated" =>
        \A p \in 1..Len(aligned) : \A q \in (p + 1)..Len(aligned) :
            NullRun(p, q) =>
                LET E == Val(aligned[p].end_time)
                    S == Val(aligned[q].start_time)
                IN \A i \in (p + 1)..(q - 1) :
                       /\ (Val(aligned[i].start_time) - E) * (q - p) = (i - p) * (S - E)
                       /\ (Val(aligned[i].end_time) - E) * (q - p) = (i - p + 1) * (S - E)

----------------------------------------------------------------------------
(* The branches of the aligner's loop body.                                *)

\* the records a step appended
NewRecords == SubSeq(aligned', Len(aligned) + 1, Len(aligned'))

\* the offsets of a shingle at reference r and hypothesis b that lie inside
\* both lists
Inside(r, b) == {i \in 0..(seq_len - 1) : r + i < len_ref /\ b + i < len_hyp}

\* C17: a match at reference cursor r with winning hypothesis index b appends,
\* for each offset i < seq_len with r + i inside the reference list and b + i
\* inside the hypothesis list, one record (ref_idx r + i, hyp_idx b + i, the
\* times of hypothesis word b + i, the winning score), nothing else, and
\* advances the reference cursor by seq_len.
C17_MatchEmits ==
    [][Match =>
        \E w \in 1..Len(candidates) :
            LET b == candidates[w].idx
            IN /\ SubSeq(aligned', 1, Len(aligned)) = aligned
               /\ Len(NewRecords) = Cardinality(Inside(ref_idx, b))
               /\ \A i \in Inside(ref_idx, b) :
                      NewRecords[i + 1] =
                          [ref_idx |-> ref_idx + i,
                           hyp_idx |-> Some(b + i),
                           start_time |-> Some(whisper[b + i + 1].start_time),
                           end_time |-> Some(whisper[b + i + 1].end_time),
                           score |-> Some(candidates[w].score)]
               /\ ref_idx' = ref_idx + seq_len]_vars

\* C17 witness: after a match of two words and a match clipped to one record
\* by the end of the hypothesis list (the reference list goes on)
C17_Witness ==
    /\ pc = "loop"
    /\ Len(aligned) >= 3
    /\ Matched(aligned[Len(aligned)])
    /\ Val(aligned[Len(aligned)].hyp_idx) = len_hyp - 1
    /\ ref_idx = aligned[Len(aligned)].ref_idx + seq_len
    /\ aligned[Len(aligned)].ref_idx + 1 < len_ref
    /\ \E i \in 1..(Len(aligned) - 1) :
           /\ Matched(aligned[i]) /\ Matched(aligned[i + 1])
           /\ aligned[i + 1].ref_idx = aligned[i].ref_idx + 1
           /\ Val(aligned[i + 1].hyp_idx) = Val(aligned[i].hyp_idx) + 1
           /\ aligned[i + 1].score = aligned[i].score

\* no position of the window scanned by the loop scores match_threshold
NoPositionScores ==
    \A idx \in hyp_idx..(window_end - 1) :
        ~AtLeastThreshold(Ratio(ref_seq, hyp_seq_at(idx)))

\* C18: when the scan loop is left with the window fully expanded and no
\* position of it scoring match_threshold or more, exactly one record is
\* appended, for the current reference word, with hyp_idx, start_time,
\* end_time and score null; the reference cursor advances by exactly 1 and
\* the hypothesis cursor stays.
C18_MissEmitsNull ==
    [][(pc = "decide" /\ NoPositionScores) =>
          /\ aligned' = Append(aligned, [ref_idx |-> ref_idx, hyp_idx |-> None,
                                         start_time |-> None, end_time |-> None,
                                         score |-> None])
          /\ ref_idx' = ref_idx + 1
          /\ hyp_idx' = hyp_idx]_vars

\* C18 witness: a miss after a match, with the window expanded: the last
\* record is null and the hypothesis cursor is past 0
C18_Witness ==
    /\ pc = "loop"
    /\ aligned # <<>>
    /\ ~Matched(aligned[Len(aligned)])
    /\ hyp_idx > 0
    /\ window_end > hyp_idx + initial_window
    /\ ref_idx = aligned[Len(aligned)].ref_idx + 1

\* C19: the match takes, of all positions of the scanned window that score
\* match_threshold or more, one of the highest score, and of those the one
\* of the smallest hypothesis index.
C19_BestIsFirstHighest ==
    [][Match =>
        \A idx \in hyp_idx..(window_end - 1) :
            \A sc \in {Ratio(ref_seq, hyp_seq_at(idx))} :
                AtLeastThreshold(sc) =>
                    /\ ScoreGE(Val(NewRecords[1].score), sc)
                    /\ ScoreGE(sc, Val(NewRecords[1].score))
                           => Val(NewRecords[1].hyp_idx) <= idx]_vars

\* C19 witness: a match was taken among two candidates of the same score
C19_Witness ==
    /\ pc = "loop"
    /\ anchor_found
    /\ Len(candidates) = 2
    /\ ScoreGE(candidates[1].score, candidates[2].score)
    /\ ScoreGE(candidates[2].score, candidates[1].score)
    /\ aligned # <<>>
    /\ \E i \in 1..Len(aligned) :
           /\ aligned[i].hyp_idx = Some(candidates[1].idx)
           /\ aligned[i].ref_idx + seq_len >= ref_idx

----------------------------------------------------------------------------
(* Properties of the model cache.                                          *)

\* C20: in every interleaving of calls of _get_whisper_model, the loader is
\* called at most once per key, every call returns the handle cached for its
\* key (so calls with one key return one handle), and calls with different
\* keys return different handles.
C20_LoadedOnce ==
    /\ \A k \in Keys : loads[k] <= 1
    /\ \A r \in returned :
           /\ r[2] # "KeyError"
           /\ WHISPER_MODEL_CACHE[r[1]] = Some(r[2])
    /\ \A r1 \in returned : \A r2 \in returned :
           (r1[1] = r2[1]) <=> (r1[2] = r2[2])

\* C20 witness: handles of both keys were returned, and a thread that found
\* its key missing is under the lock, about to find it cached by another
C20_Witness ==
    /\ Cardinality(returned) = 2
    /\ \E t \in Threads :
           /\ tpc[t] = "recheck"
           /\ ~NotCached(Val(key[t]))

====
